---- MODULE Spec2Model ----
(***************************************************************************)
(* Model of IPFS_main.py: a Streamlit dashboard script for an IPFS         *)
(* cluster.  Every user interaction re-runs the script top to bottom: the  *)
(* cluster status probe, the page header, then the five handlers in the    *)
(* order of lines 171-175.  The cluster (pin set, gateway) is the          *)
(* environment; other clients pin and unpin concurrently.                  *)
(*                                                                         *)
(* Python strings the code slices, splits or searches are sequences of     *)
(* one-character strings, so that split/strip/in are computed, not assumed.*)
(***************************************************************************)
EXTENDS Naturals, Sequences, FiniteSets

(* ------------------------------------------------------------------ *)
(* Python str primitives used by view_file_content                     *)
(* ------------------------------------------------------------------ *)

\* s[i:i+len(sub)] == sub
StartsAt(s, sub, i) ==
    /\ i >= 1
    /\ i + Len(sub) - 1 <= Len(s)
    /\ \A k \in 1..Len(sub) : s[i + k - 1] = sub[k]

\* Python: sub in s
Contains(sub, s) == \E i \in 1..(Len(s) + 1) : StartsAt(s, sub, i)

\* Python: s.startswith(sub)   (used only to state the claims)
StartsWith(s, sub) == StartsAt(s, sub, 1)

\* Python: s.find(sub) + 1, 0 when sub does not occur
Find(s, sub) ==
    IF Contains(sub, s)
    THEN CHOOSE i \in 1..(Len(s) + 1) :
            /\ StartsAt(s, sub, i)
            /\ \A j \in 1..(Len(s) + 1) : StartsAt(s, sub, j) => i <= j
    ELSE 0

\* Python: s.split(sep), a sequence of strings
RECURSIVE Split(_, _)
Split(s, sep) ==
    LET i == Find(s, sep) IN
    IF i = 0 THEN << s >>
    ELSE << SubSeq(s, 1, i - 1) >> \o Split(SubSeq(s, i + Len(sep), Len(s)), sep)

\* Python: s.lstrip(ch), s.rstrip(ch), s.strip(ch) for a single character ch
RECURSIVE LStrip(_, _)
LStrip(s, ch) ==
    IF Len(s) > 0 /\ s[1] = ch THEN LStrip(Tail(s), ch) ELSE s

RECURSIVE RStrip(_, _)
RStrip(s, ch) ==
    IF Len(s) > 0 /\ s[Len(s)] = ch THEN RStrip(SubSeq(s, 1, Len(s) - 1), ch) ELSE s

Strip(s, ch) == RStrip(LStrip(s, ch), ch)

\* the length of the identifier prefix in a synthesized file name (line 148)
CID_PREFIX_LEN == 8

\* Python: s[:n]
Slice(s, n) == SubSeq(s, 1, IF Len(s) < n THEN Len(s) ELSE n)

\* Python: xs[-1]
Last(xs) == xs[Len(xs)]

(* ------------------------------------------------------------------ *)
(* String literals                                                      *)
(* ------------------------------------------------------------------ *)

Quote == "\""
S_slash == << "/" >>
S_dot == << "." >>
S_semi == << ";" >>
S_text == << "t", "e", "x", "t" >>
S_image == << "i", "m", "a", "g", "e" >>
S_application == << "a", "p", "p", "l", "i", "c", "a", "t", "i", "o", "n" >>
S_pdf == << "p", "d", "f" >>
S_png == << "p", "n", "g" >>
S_zip == << "z", "i", "p" >>
S_plain == << "p", "l", "a", "i", "n" >>
S_opendocument ==
    << "v", "n", "d", ".", "o", "a", "s", "i", "s", ".",
       "o", "p", "e", "n", "d", "o", "c", "u", "m", "e", "n", "t", "." >>
S_filename_eq == << "f", "i", "l", "e", "n", "a", "m", "e", "=" >>
S_attachment == << "a", "t", "t", "a", "c", "h", "m", "e", "n", "t", ";", " " >>
S_inline == << "i", "n", "l", "i", "n", "e" >>
S_size == << ";", " ", "s", "i", "z", "e", "=", "1", "0" >>
S_charset == << ";", " ", "c", "h", "a", "r", "s", "e", "t", "=", "u", "t", "f", "-", "8" >>
S_report_pdf == << "r", "e", "p", "o", "r", "t", ".", "p", "d", "f" >>
S_notes_txt == << "n", "o", "t", "e", "s", ".", "t", "x", "t" >>

S_text_slash == S_text \o S_slash
S_image_slash == S_image \o S_slash
S_application_pdf == S_application \o S_slash \o S_pdf
S_octet_stream ==
    S_application \o << "/", "o", "c", "t", "e", "t", "-", "s", "t", "r", "e", "a", "m" >>

\* Python None where a string is expected; no Python string equals it
NoneStr == << "None" >>

(* ------------------------------------------------------------------ *)
(* Input domains                                                        *)
(* ------------------------------------------------------------------ *)

\* content identifiers: one longer than 8 characters, one shorter
CID_long == << "b", "a", "f", "y", "b", "e", "i", "g", "d", "y", "r" >>
CID_short == << "Q", "m", "1", "2", "3" >>
CIDs == { CID_long, CID_short }

\* what a text_input can hold: "" until the user types
TextInputs == CIDs \cup { << >> }

\* Content-Type header values of the gateway (NoneStr: header absent)
ContentTypes ==
    { NoneStr,
      S_text \o S_slash \o S_plain,
      S_text \o S_slash \o S_plain \o S_charset,
      S_image \o S_slash \o S_png,
      S_application_pdf,
      S_application \o S_slash \o S_zip,
      S_application \o S_slash \o S_opendocument \o S_text,
      S_application \o S_slash \o S_opendocument \o S_image }

\* Content-Disposition header values of the gateway (NoneStr: header absent)
ContentDispositions ==
    { NoneStr,
      S_inline,
      S_attachment \o S_filename_eq \o << Quote >> \o S_report_pdf \o << Quote >>,
      S_attachment \o S_filename_eq \o S_notes_txt,
      S_attachment \o S_filename_eq \o << Quote >> \o S_report_pdf \o << Quote >> \o S_size }

\* response bodies (response.text); opaque to the code
Bodies == { "hello", "oops" }

\* the status the code tests for, and a status that fails the test
HTTP_OK == 200
Statuses == { HTTP_OK, 500 }
HTTP_ERR == CHOOSE s \in Statuses : s # HTTP_OK

\* the header pairs of a 200 response: every content type without a
\* disposition, and every disposition with a content type absent or present
GatewayHeaders ==
    [ content_type : ContentTypes, content_disposition : { NoneStr } ]
    \cup
    [ content_type : { NoneStr, S_application_pdf },
      content_disposition : ContentDispositions ]

\* a response of the Content Gateway; raised = TRUE: requests.get raised.
\* A response that did not raise is one whose headers and body arrived whole.
GatewayResponses ==
    { [ raised |-> FALSE, status_code |-> HTTP_OK, content_type |-> h.content_type,
        content_disposition |-> h.content_disposition, text |-> "hello" ] :
      h \in GatewayHeaders }
    \cup
    [ raised : {FALSE}, status_code : {HTTP_ERR}, content_type : {NoneStr},
      content_disposition : {NoneStr}, text : Bodies ]
    \cup
    [ raised : {TRUE}, status_code : {0}, content_type : {NoneStr},
      content_disposition : {NoneStr}, text : {""} ]

\* bodies of a pin/ls response, by what response.json().get("Keys", {}) does:
\*   keys      JSON object whose Keys maps the pinned identifiers
\*   nokeys    JSON object without Keys (an error object): get gives {}
\*   null      JSON object whose Keys is null: .items() raises
\*   notjson   not JSON: .json() raises
DirectoryBodies == { "keys", "nokeys", "null", "notjson" }

\* a response of the Pin Directory Service
DirectoryResponses ==
    [ raised : {FALSE}, status_code : Statuses, body : DirectoryBodies ]
    \cup [ raised : {TRUE}, status_code : {0}, body : {"notjson"} ]

(* ------------------------------------------------------------------ *)
(* view_file_content: header parsing and classification (pure)          *)
(* ------------------------------------------------------------------ *)

\* response.headers.get(name, default)
HeaderGet(value, default) == IF value = NoneStr THEN default ELSE value

\* line 138
ContentTypeOf(response) == HeaderGet(response.content_type, S_octet_stream)

\* line 139
ContentDispositionOf(response) == HeaderGet(response.content_disposition, << >>)

\* lines 142-144: None (here the empty string, equally falsy at line 147)
\* unless the header contains filename=
DispositionFileName(content_disposition) ==
    IF Contains(S_filename_eq, content_disposition)
    THEN Strip(Split(content_disposition, S_filename_eq)[2], Quote)
    ELSE << >>

\* line 148
FallbackFileName(cid, content_type) ==
    Slice(cid, CID_PREFIX_LEN) \o S_dot \o Last(Split(content_type, S_slash))

\* lines 142-148
FileName(cid, content_type, content_disposition) ==
    LET file_name == DispositionFileName(content_disposition) IN
    IF file_name = << >>
    THEN FallbackFileName(cid, content_type)
    ELSE file_name

\* lines 151-162: the branch taken
Channel(content_type) ==
    IF Contains(S_text, content_type) THEN "text"
    ELSE IF Contains(S_image, content_type) THEN "image"
    ELSE IF Contains(S_application_pdf, content_type) THEN "pdf"
    ELSE "download"

(* ------------------------------------------------------------------ *)
(* State                                                                *)
(* ------------------------------------------------------------------ *)

VARIABLES
    pins,             \* the cluster: identifiers currently pinned
    pc,               \* position of the current script run
    clicked,          \* the st.button that is True in this run, or "none"
    cid,              \* view_file_content: cid (line 126)
    pinned_response,  \* view_file_content: pinned_response (line 130)
    pinned_files,     \* view_file_content: pinned_files (line 131)
    response,         \* view_file_content: response (line 135)
    log,              \* this run's requests and st.* calls, in order
    saved,            \* history: one earlier completed dispatch
    stale             \* history: cid was no longer pinned when the gateway was called

vars == << pins, pc, clicked, cid, pinned_response, pinned_files, response, log, saved, stale >>

Buttons == { "none", "list", "unpin", "view", "gc" }

NoSnapshot == { NoneStr }
NoDirectoryResponse == [ raised |-> FALSE, status_code |-> 0, body |-> "notjson" ]
NoResponse ==
    [ raised |-> FALSE, status_code |-> 0, content_type |-> NoneStr,
      content_disposition |-> NoneStr, text |-> "" ]
NoDispatch ==
    [ cid |-> NoneStr, pinned_files |-> NoSnapshot, response |-> NoResponse,
      events |-> << >> ]

\* requests.get / requests.post
Request(by, method, endpoint, arg) ==
    [ by |-> by, ev |-> "request", fn |-> method, what |-> endpoint,
      arg |-> arg, text |-> "", mime |-> NoneStr ]

\* st.success / st.error / st.info / st.text / st.image / st.download_button / ...
Ui(by, fn, what, arg, text, mime) ==
    [ by |-> by, ev |-> "ui", fn |-> fn, what |-> what,
      arg |-> arg, text |-> text, mime |-> mime ]

\* the handler swallows the exception and shows nothing
ExceptionShown_Silent(by, e) == << >>

\* except Exception as e: st.error(f"Error: {e}")   (lines 65-66, 89-90, 105-106,
\* 121-122, 167-168)
ExceptionShown(by, e) == << Ui(by, "error", "Error", NoneStr, e, NoneStr) >>

\* response.status_code == 200   (lines 19, 59, 74, 101, 114, 136)
IsSuccess(r) == r.status_code = HTTP_OK

(* ------------------------------------------------------------------ *)
(* Script run: start, status probe, page header                         *)
(* ------------------------------------------------------------------ *)

RunEnded == pc \in { "finished", "stopped", "crashed" }

\* A user interaction re-runs the script; at most one button is True in a run.
StartRun ==
    /\ RunEnded
    /\ \E b \in Buttons : clicked' = b
    /\ pc' = "check_cluster_status"
    /\ cid' = NoneStr
    /\ pinned_response' = NoDirectoryResponse
    /\ pinned_files' = NoSnapshot
    /\ response' = NoResponse
    /\ log' = << >>
    /\ UNCHANGED << pins, saved >>
    /\ stale' = FALSE

\* the probe reports a failure and the run goes on (no st.stop())
AfterProbe_NoStop(r) == "render"

\* lines 19-26: where the run goes after the probe
AfterProbe(r) ==
    IF ~r.raised /\ IsSuccess(r) THEN "render" ELSE "stopped"

\* lines 16-29.  st.stop() ends the run: the exception it raises is not an
\* Exception, so the handler of line 24 lets it pass.
CheckClusterStatus ==
    /\ pc = "check_cluster_status"
    /\ \E r \in [ raised : BOOLEAN, status_code : Statuses ] :
          /\ log' = log \o << Request("probe", "get", "pin/ls", NoneStr) >> \o
                (IF r.raised
                 THEN << Ui("probe", "error", "Could not connect to the IPFS Cluster",
                            NoneStr, "ConnectionError", NoneStr) >>
                 ELSE IF IsSuccess(r)
                 THEN << Ui("probe", "success", "IPFS Cluster nodes are up and running!",
                            NoneStr, "", NoneStr) >>
                 ELSE << Ui("probe", "error", "IPFS Cluster nodes appear to be down",
                            NoneStr, "", NoneStr) >>)
          /\ pc' = AfterProbe(r)
    /\ UNCHANGED << pins, clicked, cid, pinned_response, pinned_files, response, saved, stale >>

\* lines 32-47: Image.open of a fixed local path raises when the file is missing,
\* which ends the run before any handler
RenderHeader ==
    /\ pc = "render"
    /\ \E opened \in BOOLEAN :
          /\ log' = log \o << Ui("header", "title", "InterPlanetary File System",
                                 NoneStr, "", NoneStr) >> \o
                (IF opened
                 THEN << Ui("header", "image", "IPFS", NoneStr, "", NoneStr),
                         Ui("header", "markdown", "Welcome", NoneStr, "", NoneStr) >>
                 ELSE << >>)
          /\ pc' = IF opened THEN "upload_and_pin_file" ELSE "crashed"
    /\ UNCHANGED << pins, clicked, cid, pinned_response, pinned_files, response, saved, stale >>

(* ------------------------------------------------------------------ *)
(* Handlers other than view_file_content                                *)
(* ------------------------------------------------------------------ *)

\* lines 50-66.  The uploader keeps its file across runs, so the upload is
\* repeated in every run while a file is selected.
UploadAndPinFile ==
    /\ pc = "upload_and_pin_file"
    /\ pc' = "list_pinned_files"
    /\ \/ \* uploaded_file is None
          UNCHANGED << pins, log >>
       \/ \E r \in [ raised : BOOLEAN, status_code : Statuses, Hash : CIDs ] :
             /\ r.raised => r.status_code = HTTP_ERR
             /\ log' = log \o << Request("upload", "post", "add", NoneStr) >> \o
                   (IF r.raised THEN ExceptionShown("upload", "ConnectionError")
                    ELSE IF IsSuccess(r)
                    THEN << Ui("upload", "success", "File uploaded to cluster with CID",
                               r.Hash, "", NoneStr) >>
                    ELSE << Ui("upload", "error", "Failed to upload file",
                               NoneStr, "oops", NoneStr) >>)
             /\ pins' = IF ~r.raised /\ IsSuccess(r) THEN pins \cup { r.Hash } ELSE pins
    /\ UNCHANGED << clicked, cid, pinned_response, pinned_files, response, saved, stale >>

\* lines 78-84: one line per pinned file
ListedShown(files) ==
    << Ui("list", "write", "Pinned Files:", NoneStr, "", NoneStr) >> \o
    (IF CID_long \in files
     THEN << Ui("list", "markdown", "CID", CID_long, "Type", NoneStr) >> ELSE << >>) \o
    (IF CID_short \in files
     THEN << Ui("list", "markdown", "CID", CID_short, "Type", NoneStr) >> ELSE << >>)

\* lines 68-90.  A Keys of null is falsy at line 76, like an empty mapping.
ListPinnedFiles ==
    /\ pc = "list_pinned_files"
    /\ pc' = "unpin_file"
    /\ IF clicked # "list" THEN UNCHANGED log
       ELSE \E r \in DirectoryResponses :
          log' = log \o << Request("list", "get", "pin/ls", NoneStr) >> \o
             (IF r.raised THEN ExceptionShown("list", "ConnectionError")
              ELSE IF ~IsSuccess(r)
              THEN << Ui("list", "error", "Failed to retrieve pinned files",
                         NoneStr, "oops", NoneStr) >>
              ELSE IF r.body = "notjson" THEN ExceptionShown("list", "JSONDecodeError")
              ELSE IF r.body = "keys" /\ pins # {}
              THEN << Ui("list", "success", "Pinned files retrieved successfully!",
                         NoneStr, "", NoneStr) >> \o ListedShown(pins)
              ELSE << Ui("list", "info", "No pinned files found.", NoneStr, "", NoneStr) >>)
    /\ UNCHANGED << pins, clicked, cid, pinned_response, pinned_files, response, saved, stale >>

\* lines 94-106.  The cluster answers 200 and drops the pin only for a pinned cid.
UnpinFile ==
    /\ pc = "unpin_file"
    /\ pc' = "view_file_content"
    /\ IF clicked # "unpin" THEN UNCHANGED << pins, log >>
       ELSE \E c \in TextInputs, r \in [ raised : BOOLEAN, status_code : Statuses ] :
          /\ r.raised => r.status_code = HTTP_ERR
          /\ IsSuccess(r) => c \in pins
          /\ log' = log \o << Request("unpin", "get", "pin/rm", c) >> \o
                (IF r.raised THEN ExceptionShown("unpin", "ConnectionError")
                 ELSE IF IsSuccess(r)
                 THEN << Ui("unpin", "success", "unpinned from the cluster", c, "", NoneStr) >>
                 ELSE << Ui("unpin", "error", "Failed to unpin file", NoneStr, "oops", NoneStr) >>)
          /\ pins' = IF IsSuccess(r) THEN pins \ { c } ELSE pins
    /\ UNCHANGED << clicked, cid, pinned_response, pinned_files, response, saved, stale >>

\* lines 108-122
PerformGarbageCollection ==
    /\ pc = "perform_garbage_collection"
    /\ pc' = "finished"
    /\ IF clicked # "gc" THEN UNCHANGED log
       ELSE \E r \in [ raised : BOOLEAN, status_code : Statuses, text : { "", "removed" } ] :
          /\ r.raised => (r.status_code = HTTP_ERR /\ r.text = "")
          /\ log' = log \o << Request("gc", "get", "repo/gc", NoneStr) >> \o
                (IF r.raised THEN ExceptionShown("gc", "ConnectionError")
                 ELSE IF ~IsSuccess(r)
                 THEN << Ui("gc", "error", "Failed to perform garbage collection",
                            NoneStr, r.text, NoneStr) >>
                 ELSE IF r.text = ""
                 THEN << Ui("gc", "success", "No Gabbage Collection Needed!",
                            NoneStr, "", NoneStr) >>
                 ELSE << Ui("gc", "success", "Garbage collection completed successfully!",
                            NoneStr, "", NoneStr) >>)
    /\ UNCHANGED << pins, clicked, cid, pinned_response, pinned_files, response, saved, stale >>

\* Other dashboard sessions and clients of the same cluster pin (line 58) and
\* unpin (line 100) at any time.
OtherClientPin ==
    /\ \E c \in CIDs : c \notin pins /\ pins' = pins \cup { c }
    /\ UNCHANGED << pc, clicked, cid, pinned_response, pinned_files, response, log, saved, stale >>

OtherClientUnpin ==
    /\ \E c \in pins : pins' = pins \ { c }
    /\ UNCHANGED << pc, clicked, cid, pinned_response, pinned_files, response, log, saved, stale >>

(* ------------------------------------------------------------------ *)
(* view_file_content                                                    *)
(* ------------------------------------------------------------------ *)

\* line 131: pinned_response.json().get("Keys", {}); the status code of
\* pinned_response is not read
PinnedFilesOf(r, cluster_pins) ==
    IF r.body = "keys" THEN cluster_pins ELSE {}

\* the handler tests the identifier for emptiness, not for membership
IsPinned_NonEmpty(c, files) == c # << >>

\* the handler fetches whatever identifier is entered
IsPinned_Always(c, files) == TRUE

\* lines 133-134: CIDS = [...]; cid in CIDS
IsPinned(c, files) == c \in files

\* line 130
LookupRequests == << Request("view", "get", "pin/ls", NoneStr) >>

\* the gateway request is sent a second time
FetchRequests_Retry(c) ==
    << Request("view", "get", "gateway", c), Request("view", "get", "gateway", c) >>

\* line 135
FetchRequests(c) == << Request("view", "get", "gateway", c) >>

\* the handler requests pin/rm, the endpoint of unpin_file, instead of the gateway
FetchEffect_Unpin(cluster_pins, c) == cluster_pins \ { c }

\* line 135: a GET on the gateway reads; the cluster's pins stay as they are
FetchEffect(cluster_pins, c) == cluster_pins

\* line 166
NotPinnedShown(c) ==
    << Ui("view", "error", "File not present in Cluster", c, "", NoneStr) >>

\* the error message leaves out the response body
RetrievalFailedShown_NoBody(r) ==
    << Ui("view", "error", "Failed to retrieve file content", NoneStr, "", NoneStr) >>

\* line 164
RetrievalFailedShown(r) ==
    << Ui("view", "error", "Failed to retrieve file content", NoneStr, r.text, NoneStr) >>

\* lines 138-162
ChannelShown(c, r) ==
    LET content_type == ContentTypeOf(r)
        file_name == FileName(c, content_type, ContentDispositionOf(r))
        channel == Channel(content_type)
    IN  IF channel = "text"
        THEN << Ui("view", "success", "Content retrieved successfully!", file_name, "", NoneStr),
                Ui("view", "text", "", NoneStr, r.text, NoneStr) >>
        ELSE IF channel = "image"
        THEN << Ui("view", "success", "Displaying image", file_name, "", NoneStr),
                Ui("view", "image", "", file_name, r.text, NoneStr) >>
        ELSE IF channel = "pdf"
        THEN << Ui("view", "success", "Displaying PDF", file_name, "", NoneStr),
                Ui("view", "download_button", "Download PDF", file_name, r.text,
                   S_application_pdf) >>
        ELSE << Ui("view", "success", "Downloading", file_name, "", NoneStr),
                Ui("view", "download_button", "Download File", file_name, r.text,
                   content_type) >>

\* lines 124-134 and 165-168: the text input, the button, the directory lookup
\* and the membership test
ViewFileContent ==
    /\ pc = "view_file_content"
    /\ IF clicked # "view"
       THEN /\ pc' = "perform_garbage_collection"
            /\ UNCHANGED << cid, pinned_response, pinned_files, log >>
       ELSE \E c \in TextInputs, r \in DirectoryResponses :
          /\ cid' = c
          /\ pinned_response' = r
          /\ IF r.raised
             THEN /\ pinned_files' = NoSnapshot
                  /\ log' = log \o LookupRequests \o ExceptionShown("view", "ConnectionError")
                  /\ pc' = "perform_garbage_collection"
             ELSE IF r.body = "notjson"
             THEN /\ pinned_files' = NoSnapshot
                  /\ log' = log \o LookupRequests \o ExceptionShown("view", "JSONDecodeError")
                  /\ pc' = "perform_garbage_collection"
             ELSE IF r.body = "null"
             THEN /\ pinned_files' = NoSnapshot
                  /\ log' = log \o LookupRequests \o ExceptionShown("view", "AttributeError")
                  /\ pc' = "perform_garbage_collection"
             ELSE /\ pinned_files' = PinnedFilesOf(r, pins)
                  /\ IF IsPinned(c, pinned_files')
                     THEN /\ log' = log \o LookupRequests
                          /\ pc' = "view_fetch"
                     ELSE /\ log' = log \o LookupRequests \o NotPinnedShown(c)
                          /\ pc' = "perform_garbage_collection"
    /\ UNCHANGED << pins, clicked, response, saved, stale >>

\* lines 135-164: the gateway fetch and the display of its result
ViewFetch ==
    /\ pc = "view_fetch"
    /\ pc' = "perform_garbage_collection"
    /\ \E r \in GatewayResponses :
          /\ response' = r
          /\ log' = log \o FetchRequests(cid) \o
                (IF r.raised THEN ExceptionShown("view", "ConnectionError")
                 ELSE IF IsSuccess(r) THEN ChannelShown(cid, r)
                 ELSE RetrievalFailedShown(r))
    /\ stale' = (cid \notin pins)
    /\ pins' = FetchEffect(pins, cid)
    /\ UNCHANGED << clicked, cid, pinned_response, pinned_files, saved >>

(* ------------------------------------------------------------------ *)
(* Specifications                                                       *)
(* ------------------------------------------------------------------ *)

\* the first run of a session: the page is loaded, no button is clicked
Init ==
    /\ pins \in SUBSET CIDs
    /\ pc = "check_cluster_status"
    /\ clicked = "none"
    /\ cid = NoneStr
    /\ pinned_response = NoDirectoryResponse
    /\ pinned_files = NoSnapshot
    /\ response = NoResponse
    /\ log = << >>
    /\ saved = NoDispatch
    /\ stale = FALSE

Next ==
    \/ StartRun
    \/ CheckClusterStatus
    \/ RenderHeader
    \/ UploadAndPinFile
    \/ ListPinnedFiles
    \/ UnpinFile
    \/ ViewFileContent
    \/ ViewFetch
    \/ PerformGarbageCollection
    \/ OtherClientPin
    \/ OtherClientUnpin

Spec == Init /\ [][Next]_vars

(* ------------------------------------------------------------------ *)
(* Observations of a view_file_content dispatch                         *)
(* ------------------------------------------------------------------ *)

IsViewEvent(e) == e.by = "view"
IsViewRequest(e) == e.by = "view" /\ e.ev = "request"
IsViewUi(e) == e.by = "view" /\ e.ev = "ui"
IsGatewayRequest(e) == IsViewRequest(e) /\ e.what = "gateway"
IsLookupRequest(e) == IsViewRequest(e) /\ e.what = "pin/ls"
IsViewError(e) == IsViewUi(e) /\ e.fn = "error"
IsChannelOutput(e) == IsViewUi(e) /\ e.fn \in { "text", "image", "download_button" }
IsOutcome(e) == IsViewError(e) \/ IsChannelOutput(e)

ViewEvents == SelectSeq(log, IsViewEvent)
ViewRequests == SelectSeq(log, IsViewRequest)
ViewUi == SelectSeq(log, IsViewUi)
Outcomes == SelectSeq(log, IsOutcome)

\* the button was clicked and the handler has returned
DispatchDone ==
    /\ clicked = "view"
    /\ pc \in { "perform_garbage_collection", "finished" }

HasSnapshot == pinned_files # NoSnapshot
GatewayContacted == \E i \in 1..Len(log) : IsGatewayRequest(log[i])
Delivered == \E i \in 1..Len(log) : IsChannelOutput(log[i])
NotPinnedReported == \E i \in 1..Len(log) : log[i] \in { NotPinnedShown(c) : c \in TextInputs }
GatewayAnswered == response # NoResponse /\ ~response.raised

\* the channel of the output shown
ShownChannel ==
    LET e == ViewUi[Len(ViewUi)] IN
    IF e.fn = "text" THEN "text"
    ELSE IF e.fn = "image" THEN "image"
    ELSE IF e.fn = "download_button" /\ e.what = "Download PDF" THEN "pdf"
    ELSE IF e.fn = "download_button" THEN "download"
    ELSE "none"

\* the file name shown with a delivered object
ShownFileName == ViewUi[1].arg

\* StartRun, keeping the dispatch of the run that has just ended as history
StartRunRemembering ==
    /\ RunEnded
    /\ DispatchDone
    /\ \E b \in Buttons : clicked' = b
    /\ pc' = "check_cluster_status"
    /\ cid' = NoneStr
    /\ pinned_response' = NoDirectoryResponse
    /\ pinned_files' = NoSnapshot
    /\ response' = NoResponse
    /\ log' = << >>
    /\ stale' = FALSE
    /\ saved' = [ cid |-> cid, pinned_files |-> pinned_files, response |-> response,
                  events |-> ViewEvents ]
    /\ UNCHANGED pins

NextHistory ==
    \/ Next
    \/ StartRunRemembering

SpecHistory == Init /\ [][NextHistory]_vars

(* ------------------------------------------------------------------ *)
(* Claims                                                               *)
(* ------------------------------------------------------------------ *)

\* C1: an identifier that is not a key of the pin set the directory lookup of
\* this dispatch returned is never requested from the gateway, and the dispatch
\* ends showing exactly the NotPinned error.
C1_NotPinnedNoGateway ==
    (clicked = "view" /\ HasSnapshot /\ cid \notin pinned_files) =>
        /\ pc # "view_fetch"
        /\ ~GatewayContacted
        /\ DispatchDone
        /\ ViewUi = NotPinnedShown(cid)

C1_Witness ==
    /\ DispatchDone
    /\ cid = CID_short
    /\ pinned_files = { CID_long }
    /\ ViewUi = NotPinnedShown(CID_short)

\* C2 (as claimed): when the directory answers with a status other than 200,
\* the dispatch ends in a directory error: it shows an error that is not
\* NotPinned, never contacts the gateway and delivers nothing.
C2_DirectoryFailureAborts ==
    (DispatchDone /\ ~pinned_response.raised /\ pinned_response.status_code # HTTP_OK) =>
        /\ ~NotPinnedReported
        /\ ~GatewayContacted
        /\ ~Delivered
        /\ Len(ViewUi) = 1 /\ IsViewError(ViewUi[1])

\* C3: for an identifier that is a key of the fetched pin set, the requests of
\* the dispatch are exactly the directory lookup followed by one gateway
\* request for that identifier; at no point is there a gateway request without
\* the returned lookup before it, or a second one.
C3_OneGatewayCallAfterLookup ==
    LET lookup == Request("view", "get", "pin/ls", NoneStr)
        fetch == Request("view", "get", "gateway", cid)
    IN  /\ ViewRequests \in { << >>, << lookup >>, << lookup, fetch >> }
        /\ GatewayContacted => (pinned_response # NoDirectoryResponse /\ HasSnapshot)
        /\ (DispatchDone /\ HasSnapshot /\ cid \in pinned_files) =>
                ViewRequests = << lookup, fetch >>

C3_Witness ==
    /\ DispatchDone
    /\ HasSnapshot
    /\ cid \in pinned_files
    /\ Len(ViewRequests) = 2
    /\ IsLookupRequest(ViewRequests[1])
    /\ IsGatewayRequest(ViewRequests[2])
    /\ Delivered

\* C4: a pinned identifier whose gateway response has a status other than 200
\* ends in the RetrievalFailed error carrying the response body, and no output
\* channel is produced.
C4_RetrievalFailed ==
    (DispatchDone /\ GatewayAnswered /\ response.status_code # HTTP_OK) =>
        /\ ViewUi = << Ui("view", "error", "Failed to retrieve file content",
                          NoneStr, response.text, NoneStr) >>
        /\ ~Delivered

C4_Witness ==
    /\ DispatchDone
    /\ GatewayAnswered
    /\ response.status_code # HTTP_OK
    /\ response.text = "oops"
    /\ cid \in pinned_files

\* the channel the content type's prefix selects
PrefixChannel(content_type) ==
    IF StartsWith(content_type, S_text_slash) THEN "text"
    ELSE IF StartsWith(content_type, S_image_slash) THEN "image"
    ELSE IF StartsWith(content_type, S_application_pdf) THEN "pdf"
    ELSE "download"

\* C5 (as claimed): the channel of a successful dispatch is the one the prefix
\* of the content type selects (text/, image/, application/pdf, else generic
\* download with the observed type); a type that only contains text or image
\* elsewhere goes to neither of those two channels.
C5_ChannelByPrefix ==
    (DispatchDone /\ GatewayAnswered /\ response.status_code = HTTP_OK) =>
        /\ ShownChannel = PrefixChannel(ContentTypeOf(response))
        /\ ShownChannel = "pdf" => ViewUi[2].mime = S_application_pdf
        /\ ShownChannel = "download" => ViewUi[2].mime = ContentTypeOf(response)

\* the value of the filename= parameter: up to the next ";", quotes stripped
FileNameParameter(content_disposition) ==
    Strip(Split(Split(content_disposition, S_filename_eq)[2], S_semi)[1], Quote)

\* C6 (as claimed): the file name of a successful dispatch is the value of the
\* filename= parameter of content-disposition with its quotes stripped, and
\* without it the first 8 characters of the identifier, a dot and the subtype
\* of the content type.
C6_FileName ==
    (DispatchDone /\ GatewayAnswered /\ response.status_code = HTTP_OK) =>
        ShownFileName =
            IF Contains(S_filename_eq, ContentDispositionOf(response))
            THEN FileNameParameter(ContentDispositionOf(response))
            ELSE Slice(cid, CID_PREFIX_LEN) \o S_dot \o
                 Last(Split(ContentTypeOf(response), S_slash))

\* C7: whatever other clients pin or unpin meanwhile, a dispatch contacts the
\* gateway and delivers content only for an identifier that is a key of the
\* pin set snapshot this dispatch fetched.
C7_DeliveredOnlyFromSnapshot ==
    (pc = "view_fetch" \/ GatewayContacted \/ Delivered) =>
        (HasSnapshot /\ cid \in pinned_files)

\* an unpin landed between the membership test and the gateway fetch
C7_Witness ==
    /\ Delivered
    /\ stale
    /\ cid \in pinned_files

ProbeSucceeded ==
    /\ Len(log) >= 2
    /\ log[1] = Request("probe", "get", "pin/ls", NoneStr)
    /\ log[2].by = "probe" /\ log[2].fn = "success"

C10_StartupGate ==
    /\ (\E i \in 1..Len(log) : log[i].by \notin { "probe", "header" }) => ProbeSucceeded
    /\ pc \notin { "check_cluster_status", "stopped" } => ProbeSucceeded
    /\ pc = "stopped" =>
          /\ Len(log) = 2
          /\ log[1] = Request("probe", "get", "pin/ls", NoneStr)
          /\ log[2].by = "probe" /\ log[2].fn = "error"

C10_Witness ==
    /\ pc = "stopped"
    /\ clicked = "view"
    /\ log[2].what = "IPFS Cluster nodes appear to be down"

====
